---- MODULE Spec2Model ----
(***************************************************************************)
(* A model of the pixelcnn repository.                                     *)
(*                                                                         *)
(*   SpecBuild  the construction of PixelCNN / ConditionalPixelCNN         *)
(*              (src/pixelcnn/pixelcnn.py), one action per construction    *)
(*              step.  A tensor is abstracted to its shape (height, width, *)
(*              channels; the batch axis is left out) and, per spatial     *)
(*              position, the set of input-image positions its value may   *)
(*              depend on.                                                 *)
(*   SpecTrain  the training loop of src/scripts/train.py.                 *)
(*   SpecPixel  the per-pixel label computation of src/scripts/train.py.   *)
(*                                                                         *)
(* pixelcnn/ops.py and pixelcnn/gated_resnet.py are not among the source   *)
(* files; their operators are modelled from the specification's section 4. *)
(***************************************************************************)
EXTENDS Integers, Sequences, FiniteSets, TLC

VARIABLES
    \* ---- network construction
    cfg,                    \* the arguments of the factory call
    bpc,                    \* position in the factory function
    i_pre,                  \* loop variable i of the upsampling loop
    layer,                  \* loop variable of the gated-layer loop
    conditional_embedding,  \* the conditioning map
    images_embedding,       \* the (padded) image embedding
    top,                    \* the 'top' stream
    top_left,               \* the 'top-left' stream
    activated,              \* concat_elu(top_left) before the logits
    logits,                 \* the model output
    blocks,                 \* the gated_resnet calls made so far
    \* ---- training loop
    tpc,                    \* position in the training script
    N,                      \* number of examples in the training split
    i,                      \* enumerate index of the current iteration
    batchLen,               \* number of examples in the current batch
    builds,                 \* number of model instances constructed
    updates,                \* number of optimizer steps applied
    files,                  \* path -> number of steps held by the file
    writes,                 \* the model.save calls that completed
    failedAt,               \* "" or the step that raised
    \* ---- pixel labels
    ppc,                    \* position in the label computation
    raw,                    \* raw value of the channel cast last
    digits,                 \* the quantised channels so far
    images                  \* the packed label

buildVars == <<cfg, bpc, i_pre, layer, conditional_embedding, images_embedding,
               top, top_left, activated, logits, blocks>>
trainVars == <<tpc, N, i, batchLen, builds, updates, files, writes, failedAt>>
pixelVars == <<ppc, raw, digits, images>>
vars == <<buildVars, trainVars, pixelVars>>

----------------------------------------------------------------------------
\* Bounds of the model

MaxSide == 3          \* image_height, image_width in 1..MaxSide
MaxLayers == 2        \* num_layers in 0..MaxLayers
MaxCondSide == 2      \* conditional_height, conditional_width in 1..MaxCondSide
MaxPre == 2           \* num_preprocess_layers in 0..MaxPre
MaxExamples == 672    \* size of the training split in 1..MaxExamples

Max(a, b) == IF a >= b THEN a ELSE b
Min(a, b) == IF a <= b THEN a ELSE b

----------------------------------------------------------------------------
\* Tensors

Pos(h, w) == (0 .. h - 1) \X (0 .. w - 1)

Tensor(ok, h, w, c, deps) == [ok |-> ok, shape |-> <<h, w, c>>, deps |-> deps]

NoTensor == Tensor(FALSE, 0, 0, 0, [p \in Pos(0, 0) |-> {}])

Stream(name, gen, t) == [name |-> name, gen |-> gen, t |-> t]

NoStream == Stream("", 0, NoTensor)

\* layers.Input: every position of the input image is itself
Input(h, w, c) == Tensor(TRUE, h, w, c, [p \in Pos(h, w) |-> {p}])

\* a tensor that does not derive from the image input
ConstInput(h, w, c) == Tensor(TRUE, h, w, c, [p \in Pos(h, w) |-> {}])

\* a pointwise layer: only the channel count changes
Pointwise(x, c) == [x EXCEPT !.shape = <<x.shape[1], x.shape[2], c>>]

\* TimeDistributed(Embedding(_, size)): a channel axis of `size` is appended
Embedding(x, size) == Pointwise(x, size)

\* tf.pad(z, [[0,0],[0,0],[0,0],[0,1]], constant_values=1)
padding_backend(z) == Pointwise(z, z.shape[3] + 1)

\* Conv2D(filters, (1, 1), padding='valid')
Conv2D_1x1(x, filters) == Pointwise(x, filters)

\* Conv2DTranspose(filters, (5, 5), strides=(2, 2), padding='same')
Conv2DTranspose(x, filters) ==
    Tensor(x.ok, 2 * x.shape[1], 2 * x.shape[2], filters,
           [p \in Pos(2 * x.shape[1], 2 * x.shape[2]) |-> {}])

\* ops.concat_elu: ELU(x) and ELU(-x) concatenated along the channels
concat_elu(x) == Pointwise(x, 2 * x.shape[3])

\* a convolution padded so that output (r, c) reads the input rows
\* r - up .. r and the input columns c - left .. c + right
PaddedConv(x, filters, up, left, right) ==
    LET h == x.shape[1]
        w == x.shape[2]
    IN  Tensor(x.ok, h, w, filters,
               [p \in Pos(h, w) |->
                   UNION {x.deps[q] : q \in (Max(0, p[1] - up) .. p[1])
                                        \X (Max(0, p[2] - left) .. Min(w - 1, p[2] + right))}])

\* ops.down_shifted_conv2d
down_shifted_conv2d(x, filters, kernel_size) ==
    PaddedConv(x, filters, kernel_size[1] - 1,
               (kernel_size[2] - 1) \div 2, (kernel_size[2] - 1) \div 2)

\* ops.down_right_shifted_conv2d
down_right_shifted_conv2d(x, filters, kernel_size) ==
    PaddedConv(x, filters, kernel_size[1] - 1, kernel_size[2] - 1, 0)

\* ops.down_shift: a zero row on top, the last row dropped
down_shift(x) ==
    [x EXCEPT !.deps = [p \in DOMAIN x.deps |->
                           IF p[1] = 0 THEN {} ELSE x.deps[<<p[1] - 1, p[2]>>]]]

\* ops.right_shift: a zero column on the left, the last column dropped
right_shift(x) ==
    [x EXCEPT !.deps = [p \in DOMAIN x.deps |->
                           IF p[2] = 0 THEN {} ELSE x.deps[<<p[1], p[2] - 1>>]]]

\* layers.add: a shape mismatch is a failure of the tensor engine
add(x, y) ==
    [ok |-> x.ok /\ y.ok /\ x.shape = y.shape,
     shape |-> x.shape,
     deps |-> [p \in DOMAIN x.deps |->
                  x.deps[p] \cup (IF p \in DOMAIN y.deps THEN y.deps[p] ELSE {})]]

\* the value half times the sigmoid of the gate half
gate(x) == Pointwise(x, x.shape[3] \div 2)

\* SpatialDropout2D
dropout(x) == x

\* the conv2d argument of gated_resnet: one of the two shifted convolutions
conv2d(kind, x, filters, kernel_size) ==
    IF kind = "down_shifted_conv2d"
    THEN down_shifted_conv2d(x, filters, kernel_size)
    ELSE down_right_shifted_conv2d(x, filters, kernel_size)

\* gated_resnet.gated_resnet(x, a=None, h=None, conv2d, kernel_size)
gated_resnet(x, has_a, a, has_h, h, kind, kernel_size) ==
    LET filters == x.shape[3]
        c1 == conv2d(kind, concat_elu(x), filters, kernel_size)
        c1a == IF has_a THEN add(c1, Conv2D_1x1(concat_elu(a), filters)) ELSE c1
        c2 == conv2d(kind, dropout(concat_elu(c1a)), 2 * filters, kernel_size)
        c2h == IF has_h THEN add(c2, Conv2D_1x1(h, 2 * filters)) ELSE c2
    IN  add(x, gate(c2h))

----------------------------------------------------------------------------
\* Construction of PixelCNN (cfg.conditional = FALSE) and of
\* ConditionalPixelCNN (cfg.conditional = TRUE)

FiltersChoices == {2, 3}
OutputSizes == {5}
VectorSizes == {4}

Configs ==
    {c \in [conditional : BOOLEAN,
            output_size : OutputSizes,
            conditional_vector_size : VectorSizes,
            image_height : 1 .. MaxSide,
            image_width : 1 .. MaxSide,
            image_is_discrete : BOOLEAN,
            conditional_height : 1 .. MaxCondSide,
            conditional_width : 1 .. MaxCondSide,
            class_conditional : BOOLEAN,
            num_preprocess_layers : 0 .. MaxPre,
            num_layers : 0 .. MaxLayers,
            filters : FiltersChoices] :
        c.conditional \/ (/\ c.conditional_height = 1
                          /\ c.conditional_width = 1
                          /\ c.class_conditional
                          /\ c.num_preprocess_layers = 0)}

\* images = layers.Input(...); a discrete image has no channel axis, which
\* is written as one channel here
ImagesInput(c) ==
    IF c.image_is_discrete
    THEN Input(c.image_height, c.image_width, 1)
    ELSE Input(c.image_height, c.image_width, c.filters)

\* inputs = layers.Input(...), embedded when class_conditional
ConditionalInput(c) ==
    IF c.class_conditional
    THEN Embedding(ConstInput(c.conditional_height, c.conditional_width, 1),
                   c.conditional_vector_size)
    ELSE ConstInput(c.conditional_height, c.conditional_width,
                    c.conditional_vector_size)

\* one turn of the upsampling loop
UpsampleLayer(x, k, filters) ==
    Conv2DTranspose(IF k > 0 THEN concat_elu(x) ELSE x, filters)

\* images_embedding
ImagesEmbedding(c) ==
    padding_backend(IF c.image_is_discrete
                    THEN Embedding(ImagesInput(c), c.filters)
                    ELSE ImagesInput(c))

\* InitialTop without the down_shift around the convolution
InitialTopUnshifted(x, filters) ==
    down_shifted_conv2d(x, filters, <<2, 3>>)

\* top = down_shift(down_shifted_conv2d(images_embedding, filters, (2, 3)))
InitialTop(x, filters) ==
    down_shift(down_shifted_conv2d(x, filters, <<2, 3>>))

\* InitialTopLeft with the channel count of its input (the border channel
\* included) passed as the filters of the two convolutions
InitialTopLeftWide(x, filters) ==
    add(down_shift(down_shifted_conv2d(x, x.shape[3], <<1, 3>>)),
        right_shift(down_right_shifted_conv2d(x, x.shape[3], <<2, 1>>)))

\* top_left = add([initial_top_left_stream_a, initial_top_left_stream_b])
InitialTopLeft(x, filters) ==
    LET initial_top_left_stream_a ==
            down_shift(down_shifted_conv2d(x, filters, <<1, 3>>))
        initial_top_left_stream_b ==
            right_shift(down_right_shifted_conv2d(x, filters, <<2, 1>>))
    IN  add(initial_top_left_stream_a, initial_top_left_stream_b)

\* TopBlockArgs with the top-left stream passed as a=
TopBlockArgsCross(t, tl) ==
    [x |-> t, has_a |-> TRUE, a |-> tl,
     kind |-> "down_shifted_conv2d", kernel_size |-> <<2, 3>>]

\* the arguments of the gated_resnet call that updates top
TopBlockArgs(t, tl) ==
    [x |-> t, has_a |-> FALSE, a |-> t,
     kind |-> "down_shifted_conv2d", kernel_size |-> <<2, 3>>]

\* the arguments of the gated_resnet call that updates top_left
TopLeftBlockArgs(t, tl) ==
    [x |-> tl, has_a |-> TRUE, a |-> t,
     kind |-> "down_right_shifted_conv2d", kernel_size |-> <<2, 2>>]

\* the gated_resnet call with these arguments; h is passed by the
\* conditional factory only
CallGatedResnet(args) ==
    gated_resnet(args.x.t, args.has_a, args.a.t,
                 cfg.conditional, conditional_embedding,
                 args.kind, args.kernel_size)

\* the record kept of a gated_resnet call
BlockRecord(stream, args, out) ==
    [stream |-> stream, layer |-> layer,
     x |-> <<args.x.name, args.x.gen>>,
     has_a |-> args.has_a,
     a |-> IF args.has_a THEN <<args.a.name, args.a.gen>> ELSE <<"", 0>>,
     in_shape |-> args.x.t.shape,
     out_shape |-> out.shape]

\* logits = Conv2D(output_size, (1, 1))(concat_elu(top_left))
LogitsConv(x, output_size) == Conv2D_1x1(x, output_size)

BuildInit ==
    /\ cfg \in Configs
    /\ bpc = "inputs"
    /\ i_pre = 0
    /\ layer = 0
    /\ conditional_embedding = NoTensor
    /\ images_embedding = NoTensor
    /\ top = NoStream
    /\ top_left = NoStream
    /\ activated = NoStream
    /\ logits = NoStream
    /\ blocks = <<>>
    /\ tpc = "idle"
    /\ N = 0
    /\ i = -1
    /\ batchLen = 0
    /\ builds = 0
    /\ updates = 0
    /\ files = <<>>
    /\ writes = <<>>
    /\ failedAt = ""
    /\ ppc = "idle"
    /\ raw = 0
    /\ digits = <<>>
    /\ images = 0

\* the Input layers; the conditional factory embeds the class labels
CreateInputs ==
    /\ bpc = "inputs"
    /\ conditional_embedding' =
           IF cfg.conditional THEN ConditionalInput(cfg) ELSE NoTensor
    /\ bpc' = IF cfg.conditional /\ cfg.num_preprocess_layers > 0
              THEN "upsample" ELSE "embed"
    /\ UNCHANGED <<cfg, i_pre, layer, images_embedding, top, top_left,
                   activated, logits, blocks>>
    /\ UNCHANGED <<trainVars, pixelVars>>

\* for i in range(num_preprocess_layers)
Upsample ==
    /\ bpc = "upsample"
    /\ conditional_embedding' =
           UpsampleLayer(conditional_embedding, i_pre, cfg.filters)
    /\ i_pre' = i_pre + 1
    /\ bpc' = IF i_pre + 1 < cfg.num_preprocess_layers
              THEN "upsample" ELSE "embed"
    /\ UNCHANGED <<cfg, layer, images_embedding, top, top_left,
                   activated, logits, blocks>>
    /\ UNCHANGED <<trainVars, pixelVars>>

\* the embedding of the image and its border channel
EmbedImages ==
    /\ bpc = "embed"
    /\ images_embedding' = ImagesEmbedding(cfg)
    /\ bpc' = "initial"
    /\ UNCHANGED <<cfg, i_pre, layer, conditional_embedding, top, top_left,
                   activated, logits, blocks>>
    /\ UNCHANGED <<trainVars, pixelVars>>

\* the initial shifted convolutions
InitialStreams ==
    /\ bpc = "initial"
    /\ top' = Stream("top", 0, InitialTop(images_embedding, cfg.filters))
    /\ top_left' =
           Stream("top_left", 0, InitialTopLeft(images_embedding, cfg.filters))
    /\ bpc' = IF cfg.num_layers > 0 THEN "top_block" ELSE "logits"
    /\ UNCHANGED <<cfg, i_pre, layer, conditional_embedding, images_embedding,
                   activated, logits, blocks>>
    /\ UNCHANGED <<trainVars, pixelVars>>

\* top = gated_resnet(top, ...)
TopBlock ==
    /\ bpc = "top_block"
    /\ LET args == TopBlockArgs(top, top_left)
           out == CallGatedResnet(args)
       IN  /\ out.ok
           /\ top' = Stream("top", top.gen + 1, out)
           /\ blocks' = Append(blocks, BlockRecord("top", args, out))
    /\ bpc' = "top_left_block"
    /\ UNCHANGED <<cfg, i_pre, layer, conditional_embedding, images_embedding,
                   top_left, activated, logits>>
    /\ UNCHANGED <<trainVars, pixelVars>>

\* top_left = gated_resnet(top_left, a=top, ...), the end of a loop turn
TopLeftBlock ==
    /\ bpc = "top_left_block"
    /\ LET args == TopLeftBlockArgs(top, top_left)
           out == CallGatedResnet(args)
       IN  /\ out.ok
           /\ top_left' = Stream("top_left", top_left.gen + 1, out)
           /\ blocks' = Append(blocks, BlockRecord("top_left", args, out))
    /\ layer' = layer + 1
    /\ bpc' = IF layer + 1 < cfg.num_layers THEN "top_block" ELSE "logits"
    /\ UNCHANGED <<cfg, i_pre, conditional_embedding, images_embedding,
                   top, activated, logits>>
    /\ UNCHANGED <<trainVars, pixelVars>>

\* a gated_resnet call whose tensors do not fit raises; no model is returned
BlockFails ==
    /\ bpc \in {"top_block", "top_left_block"}
    /\ ~CallGatedResnet(IF bpc = "top_block"
                        THEN TopBlockArgs(top, top_left)
                        ELSE TopLeftBlockArgs(top, top_left)).ok
    /\ bpc' = "error"
    /\ UNCHANGED <<cfg, i_pre, layer, conditional_embedding, images_embedding,
                   top, top_left, activated, logits, blocks>>
    /\ UNCHANGED <<trainVars, pixelVars>>

\* the final nonlinearity, the logits and models.Model(...)
ComputeLogits ==
    /\ bpc = "logits"
    /\ LET act == concat_elu(top_left.t)
       IN  /\ activated' = Stream(top_left.name, top_left.gen, act)
           /\ logits' = Stream(top_left.name, top_left.gen,
                               LogitsConv(act, cfg.output_size))
    /\ bpc' = "done"
    /\ UNCHANGED <<cfg, i_pre, layer, conditional_embedding, images_embedding,
                   top, top_left, blocks>>
    /\ UNCHANGED <<trainVars, pixelVars>>

BuildNext ==
    \/ CreateInputs
    \/ Upsample
    \/ EmbedImages
    \/ InitialStreams
    \/ TopBlock
    \/ TopLeftBlock
    \/ BlockFails
    \/ ComputeLogits

----------------------------------------------------------------------------
\* The training script, src/scripts/train.py

output_size == 1000     \* the first argument of the model factory
BatchSize == 32         \* .batch(32)
Repeats == 5            \* .repeat(5)
SaveEvery == 100        \* if i % 100 == 0
CheckpointPath == "models/model.h5"

\* Dataset.batch(size) of n examples, as the sequence of batch lengths
Batch(n, size) ==
    [k \in 1 .. ((n + size - 1) \div size) |->
        IF k * size <= n THEN size ELSE n - (k - 1) * size]

\* Dataset.repeat(count)
Repeat(s, count) ==
    [k \in 1 .. (Len(s) * count) |-> s[((k - 1) % Len(s)) + 1]]

\* train_ds with .repeat(5) applied before .batch(32)
train_ds_repeat_first(n) == Batch(n * Repeats, BatchSize)

\* train_ds = load(...).shuffle(1024).batch(32).repeat(5).prefetch(10)
train_ds(n) == Repeat(Batch(n, BatchSize), Repeats)

\* SaveDue without the write of iteration 0
SaveDueSkipFirst(k) == k > 0 /\ k % SaveEvery = 0

\* if i % 100 == 0
SaveDue(k) == k % SaveEvery = 0

\* ApplyStep that leaves out a partial batch
ApplyStepFullOnly(u, batch) == IF batch = BatchSize THEN u + 1 ELSE u

\* the weights after one optimizer.minimize call on a batch
ApplyStep(u, batch) == u + 1

TrainInit ==
    /\ tpc = "setup"
    /\ N \in 1 .. MaxExamples
    /\ i = -1
    /\ batchLen = 0
    /\ builds = 0
    /\ updates = 0
    /\ files = <<>>
    /\ writes = <<>>
    /\ failedAt = ""
    /\ cfg = [conditional |-> FALSE]
    /\ bpc = "idle"
    /\ i_pre = 0
    /\ layer = 0
    /\ conditional_embedding = NoTensor
    /\ images_embedding = NoTensor
    /\ top = NoStream
    /\ top_left = NoStream
    /\ activated = NoStream
    /\ logits = NoStream
    /\ blocks = <<>>
    /\ ppc = "idle"
    /\ raw = 0
    /\ digits = <<>>
    /\ images = 0

\* makedirs, the model, the optimizer and the dataset pipeline
Setup ==
    /\ tpc = "setup"
    /\ builds' = builds + 1
    /\ tpc' = "next"
    /\ UNCHANGED <<N, i, batchLen, updates, files, writes, failedAt>>
    /\ UNCHANGED <<buildVars, pixelVars>>

\* for i, example in enumerate(train_ds): the next batch, its images and labels
NextBatch ==
    /\ tpc = "next"
    /\ i + 1 < Len(train_ds(N))
    /\ i' = i + 1
    /\ batchLen' = train_ds(N)[i + 2]
    /\ tpc' = "minimize"
    /\ UNCHANGED <<N, builds, updates, files, writes, failedAt>>
    /\ UNCHANGED <<buildVars, pixelVars>>

\* the iterator is exhausted: the loop and the script end
LoopEnd ==
    /\ tpc = "next"
    /\ i + 1 >= Len(train_ds(N))
    /\ tpc' = "done"
    /\ UNCHANGED <<N, i, batchLen, builds, updates, files, writes, failedAt>>
    /\ UNCHANGED <<buildVars, pixelVars>>

\* Raise with the exception caught and the loop continued
RaiseCaught(where) ==
    /\ failedAt' = where
    /\ tpc' = "next"

\* an exception nothing catches: the traceback and the end of the process
Raise(where) ==
    /\ failedAt' = where
    /\ tpc' = "aborted"

\* optimizer.minimize(loss_function, model.trainable_variables)
Minimize ==
    /\ tpc = "minimize"
    /\ updates' = ApplyStep(updates, batchLen)
    /\ tpc' = "save"
    /\ UNCHANGED <<N, i, batchLen, builds, files, writes, failedAt>>
    /\ UNCHANGED <<buildVars, pixelVars>>

\* the loss computation or the optimizer step raises
MinimizeFails ==
    /\ tpc = "minimize"
    /\ \E where \in {"loss", "step"} : Raise(where)
    /\ UNCHANGED <<N, i, batchLen, builds, updates, files, writes>>
    /\ UNCHANGED <<buildVars, pixelVars>>

\* Save placed before the optimizer step of its iteration
SaveBeforeStep ==
    /\ tpc = "save"
    /\ SaveDue(i)
    /\ files' = (CheckpointPath :> (updates - 1)) @@ files
    /\ writes' = Append(writes, [i |-> i, path |-> CheckpointPath,
                                weights |-> updates - 1])
    /\ tpc' = "next"
    /\ UNCHANGED <<N, i, batchLen, builds, updates, failedAt>>
    /\ UNCHANGED <<buildVars, pixelVars>>

\* model.save('models/model.h5') in an iteration with i % 100 == 0
Save ==
    /\ tpc = "save"
    /\ SaveDue(i)
    /\ files' = (CheckpointPath :> updates) @@ files
    /\ writes' = Append(writes, [i |-> i, path |-> CheckpointPath,
                                weights |-> updates])
    /\ tpc' = "next"
    /\ UNCHANGED <<N, i, batchLen, builds, updates, failedAt>>
    /\ UNCHANGED <<buildVars, pixelVars>>

\* model.save raises
SaveFails ==
    /\ tpc = "save"
    /\ SaveDue(i)
    /\ Raise("save")
    /\ UNCHANGED <<N, i, batchLen, builds, updates, files, writes>>
    /\ UNCHANGED <<buildVars, pixelVars>>

\* an iteration with i % 100 != 0 writes nothing
SkipSave ==
    /\ tpc = "save"
    /\ ~SaveDue(i)
    /\ tpc' = "next"
    /\ UNCHANGED <<N, i, batchLen, builds, updates, files, writes, failedAt>>
    /\ UNCHANGED <<buildVars, pixelVars>>

TrainNext ==
    \/ Setup
    \/ NextBatch
    \/ LoopEnd
    \/ Minimize
    \/ MinimizeFails
    \/ Save
    \/ SaveFails
    \/ SkipSave

----------------------------------------------------------------------------
\* The label of one pixel, src/scripts/train.py lines 36-41

\* example["image"]: the values of a uint8 colour channel
RawValues == 0 .. 255

\* Quantise that rounds to the nearest integer
QuantiseRounded(v) == (v * 10 + 128) \div 256

\* tf.cast(tf.cast(v, tf.float32) / 25.6, tf.int32): the quotient by
\* 25.6 = 256 / 10, truncated
Quantise(v) == (v * 10) \div 256

\* images[..., 0] + images[..., 1] * 10 + images[..., 2] * 100
Pack(d) == d[1] + d[2] * 10 + d[3] * 100

PixelInit ==
    /\ ppc = "cast"
    /\ raw = 0
    /\ digits = <<>>
    /\ images = 0
    /\ cfg = [conditional |-> FALSE]
    /\ bpc = "idle"
    /\ i_pre = 0
    /\ layer = 0
    /\ conditional_embedding = NoTensor
    /\ images_embedding = NoTensor
    /\ top = NoStream
    /\ top_left = NoStream
    /\ activated = NoStream
    /\ logits = NoStream
    /\ blocks = <<>>
    /\ tpc = "idle"
    /\ N = 0
    /\ i = -1
    /\ batchLen = 0
    /\ builds = 0
    /\ updates = 0
    /\ files = <<>>
    /\ writes = <<>>
    /\ failedAt = ""

\* the cast of the next colour channel of the pixel
CastChannel ==
    /\ ppc = "cast"
    /\ \E v \in RawValues :
          /\ raw' = v
          /\ digits' = Append(digits, Quantise(v))
    /\ ppc' = IF Len(digits) + 1 < 3 THEN "cast" ELSE "pack"
    /\ UNCHANGED images
    /\ UNCHANGED <<buildVars, trainVars>>

\* the three digits packed into the label
PackLabel ==
    /\ ppc = "pack"
    /\ images' = Pack(digits)
    /\ ppc' = "packed"
    /\ UNCHANGED <<raw, digits>>
    /\ UNCHANGED <<buildVars, trainVars>>

PixelNext ==
    \/ CastChannel
    \/ PackLabel

----------------------------------------------------------------------------
\* Properties of the construction

Built == bpc \in {"top_block", "top_left_block", "logits", "done", "error"}

\* every image position t depends on at p lies in a row above p
RowsAbove(t) ==
    \A p \in DOMAIN t.deps : \A q \in t.deps[p] : q[1] < p[1]

\* every image position t depends on at p comes before p in raster order
RasterBefore(t) ==
    \A p \in DOMAIN t.deps : \A q \in t.deps[p] :
        q[1] < p[1] \/ (q[1] = p[1] /\ q[2] < p[2])

\* C1: after the initial shifted convolutions and after every gated layer,
\* the 'top' stream at (r, c) depends on no image pixel of a row r' >= r,
\* and the 'top-left' stream and the logits at (r, c) depend on no image
\* pixel with r' > r, or with r' = r and c' >= c; the logits at (r, c) do
\* not depend on the pixel (r, c).
C1_Causality ==
    /\ Built => RowsAbove(top.t) /\ RasterBefore(top_left.t)
    /\ bpc = "done" =>
          /\ RasterBefore(logits.t)
          /\ \A p \in DOMAIN logits.t.deps : p \notin logits.t.deps[p]

\* a conditional model with a gated layer whose logits at (1, 1) depend on
\* the pixel to the left and, through the top stream, on the row above
C1_Witness ==
    /\ bpc = "done"
    /\ cfg.conditional
    /\ cfg.num_layers >= 1
    /\ cfg.image_height >= 2
    /\ cfg.image_width >= 2
    /\ <<1, 0>> \in logits.t.deps[<<1, 1>>]
    /\ <<0, 1>> \in top.t.deps[<<1, 0>>]
    /\ <<0, 1>> \in logits.t.deps[<<1, 0>>]

\* C5: in every ConditionalPixelCNN whose construction succeeds, the
\* conditioning map that the upsampling stack produces has the spatial size
\* (image_height, image_width).
C5_UpsampledToImageSize ==
    (cfg.conditional /\ bpc = "done") =>
        /\ conditional_embedding.shape[1] = cfg.image_height
        /\ conditional_embedding.shape[2] = cfg.image_width

StreamShape == <<cfg.image_height, cfg.image_width, cfg.filters>>

\* C6: after the initial convolutions and after every gated layer both
\* streams have the shape (image_height, image_width, filters), every gated
\* block returns the shape it received, the concat-ELU before the logits
\* doubles the channel count, and the output has the shape
\* (image_height, image_width, output_size).
C6_Shapes ==
    /\ Built => top.t.shape = StreamShape /\ top_left.t.shape = StreamShape
    /\ \A k \in 1 .. Len(blocks) :
          /\ blocks[k].out_shape = blocks[k].in_shape
          /\ blocks[k].out_shape[3] = cfg.filters
    /\ bpc = "done" =>
          /\ activated.t.shape =
                 <<cfg.image_height, cfg.image_width, 2 * top_left.t.shape[3]>>
          /\ logits.t.shape =
                 <<cfg.image_height, cfg.image_width, cfg.output_size>>
          /\ logits.t.ok

\* a continuous-image model with two gated layers and a non-square image
C6_Witness ==
    /\ bpc = "done"
    /\ ~cfg.image_is_discrete
    /\ cfg.num_layers >= 2
    /\ cfg.image_height = 2
    /\ cfg.image_width = 3
    /\ cfg.filters = 3
    /\ activated.t.shape = <<2, 3, 6>>
    /\ logits.t.shape = <<2, 3, 5>>

\* C8: in every repetition the 'top' block is built first, from the 'top'
\* stream alone, and the 'top-left' block of the repetition takes the 'top'
\* stream that block has just produced as its auxiliary input; the logits
\* are computed from the final 'top-left' stream.
C8_ConstructionOrder ==
    /\ \A k \in 1 .. Len(blocks) :
          LET b == blocks[k]
              rep == (k - 1) \div 2
          IN  /\ b.layer = rep
              /\ k % 2 = 1 =>
                    /\ b.stream = "top"
                    /\ b.x = <<"top", rep>>
                    /\ ~b.has_a
              /\ k % 2 = 0 =>
                    /\ b.stream = "top_left"
                    /\ b.x = <<"top_left", rep>>
                    /\ b.has_a
                    /\ b.a = <<"top", rep + 1>>
    /\ bpc = "done" =>
          /\ Len(blocks) = 2 * cfg.num_layers
          /\ logits.name = "top_left"
          /\ logits.gen = cfg.num_layers
          /\ logits.t.deps = top_left.t.deps

\* a model with two repetitions, all four blocks and the logits built
C8_Witness ==
    /\ bpc = "done"
    /\ cfg.num_layers = 2
    /\ Len(blocks) = 4
    /\ blocks[4].a = <<"top", 2>>
    /\ logits.gen = 2

----------------------------------------------------------------------------
\* Properties of the training loop

\* iteration j has passed its checkpoint statement
PastSave(j) == j < i \/ (j = i /\ tpc \in {"next", "done"})

\* C3: a write of the checkpoint file happens in iteration j exactly if
\* j mod 100 = 0, the first iteration included, and every write goes to the
\* one path models/model.h5, replacing the checkpoint before it.
C3_CheckpointEvery100 ==
    /\ \A k \in 1 .. Len(writes) :
          /\ writes[k].i % 100 = 0
          /\ writes[k].path = "models/model.h5"
          /\ \A m \in 1 .. Len(writes) : writes[m].i = writes[k].i => m = k
    /\ \A j \in 0 .. i :
          PastSave(j) =>
              ((j % 100 = 0) <=> \E k \in 1 .. Len(writes) : writes[k].i = j)
    /\ DOMAIN files = IF writes = <<>> THEN {} ELSE {"models/model.h5"}
    /\ writes # <<>> => files["models/model.h5"] = writes[Len(writes)].weights

\* the loop has ended after the writes of iterations 0 and 100
C3_Witness ==
    /\ tpc = "done"
    /\ Len(writes) = 2
    /\ writes[1].i = 0
    /\ writes[2].i = 100
    /\ i > 100

\* the optimizer calls that have run: one per batch fetched, the current
\* batch left out while its call is still ahead or when its call raised
StepsDue ==
    IF tpc = "minimize" \/ (tpc = "aborted" /\ failedAt \in {"loss", "step"})
    THEN i
    ELSE i + 1

\* C4: at every point of the run the number of weight updates equals the
\* number of batches whose optimizer call has run, and one model instance
\* is built, before the loop.
C4_OneStepPerBatch ==
    /\ updates = StepsDue
    /\ builds = IF tpc = "setup" THEN 0 ELSE 1

\* the loop has ended after more than 100 batches, the last one partial
C4_Witness ==
    /\ tpc = "done"
    /\ updates > 100
    /\ batchLen < 32
    /\ builds = 1

\* C7: once a step has failed the process is aborted: no action of the
\* script is possible any more.
C7_FailureAborts ==
    failedAt # "" => (tpc = "aborted" /\ ~ENABLED TrainNext)

\* the checkpoint write of iteration 100 has failed
C7_Witness ==
    /\ failedAt = "save"
    /\ tpc = "aborted"
    /\ i = 100
    /\ updates = 101
    /\ files["models/model.h5"] = 1

C10_Terminates ==
    /\ <>(tpc \in {"done", "aborted"})
    /\ [](tpc = "done" =>
            \E k \in 1 .. N :
                /\ 32 * (k - 1) < N
                /\ N <= 32 * k
                /\ i + 1 = 5 * k)

\* 33 examples: two batches a pass, the second of one example, ten in all
C10_Witness ==
    /\ tpc = "done"
    /\ N = 33
    /\ i = 9
    /\ batchLen = 1
    /\ failedAt = ""

----------------------------------------------------------------------------
\* Properties of the pixel labels

\* C2: every channel of a pixel with raw values in 0..255 is quantised to
\* the integer part of value / 25.6, a digit in 0..9, and the packed label
\* R + 10 * G + 100 * B is in 0..999, below output_size.
C2_LabelInRange ==
    /\ \A k \in 1 .. Len(digits) : digits[k] \in 0 .. 9
    /\ digits # <<>> =>
          /\ 256 * digits[Len(digits)] <= 10 * raw
          /\ 10 * raw < 256 * (digits[Len(digits)] + 1)
    /\ ppc = "packed" =>
          /\ images = digits[1] + 10 * digits[2] + 100 * digits[3]
          /\ 0 <= images
          /\ images <= 999
          /\ images < output_size

\* a white pixel: the largest label
C2_Witness ==
    /\ ppc = "packed"
    /\ raw = 255
    /\ digits = <<9, 9, 9>>
    /\ images = 999

----------------------------------------------------------------------------
\* Specifications

SpecBuild == BuildInit /\ [][BuildNext]_vars

SpecTrain == TrainInit /\ [][TrainNext]_vars

\* the interpreter runs the script's next statement as long as there is one
SpecTrainFair == SpecTrain /\ WF_vars(TrainNext)

SpecPixel == PixelInit /\ [][PixelNext]_vars

====
